---- MODULE Spec2Model ----
(***************************************************************************)
(* Collaborative-filtering anime recommender (src/collab_based_rec.py,     *)
(* driven by src/main.py), as a state machine.                             *)
(*                                                                         *)
(* Two entry points are modelled:                                          *)
(*   - a direct call of find_total_similar_user_interactions with          *)
(*     arbitrary arguments (entry = "scan");                               *)
(*   - the pipeline create_recommendation_matrix ->                        *)
(*     create_anime_recommendation_df -> recommend_anime                   *)
(*     (entry = "pipeline"), in which the scanner always runs with         *)
(*     coverage = 5, max_members = 100 and max_anime_reviewed = 500.       *)
(*                                                                         *)
(* A DataFrame is a sequence of records; score/users_scores_<i>.parquet    *)
(* and anime/anime.parquet are inputs, chosen when they are read. The      *)
(* shuffled order of the files is drawn file by file. Sorts that are not   *)
(* stable (sort_values, argpartition) leave the order of equal keys open:  *)
(* every order is a possible outcome.                                      *)
(***************************************************************************)
EXTENDS Integers, Sequences, FiniteSets

----------------------------------------------------------------------------
(* Bounds of the model and the domains the inputs are drawn from.          *)

\* Total number of interaction records held by the five score files.
MaxRecords == 2

\* User ids found in the score files. 0 is also the id generate_rating gives
\* the target user; nothing in the code keeps a file from holding it, nor a
\* negative id.
UserIds == {-1, 0, 1}

AnimeIds == {1, 2}

Ratings == {6, 9}

\* 'Scored By' values of the catalog.
ScoredByValues == {0, 1, 2}

Record == [user_id : UserIds, anime_id : AnimeIds, rating : Ratings]

\* Every DataFrame of at most n interaction records.
Frames(n) == UNION {[1..k -> Record] : k \in 0..n}

\* Liked-anime lists: non-empty, without repetition (main.py passes six titles).
LikedLists == {<<1>>, <<2>>, <<1, 2>>}

----------------------------------------------------------------------------
(* Program constants.                                                      *)

\* files = np.arange(5)
NumFiles == 5

\* Arguments create_recommendation_matrix passes to the scanner.
PipelineCoverage == 5
DefaultMaxMembers == 100
PipelineMaxAnimeReviewed == 500

\* generate_rating(liked_anime_list, rating=10)
LikedRating == 10

\* min(similarity.shape[0], 15)
TopK == 15

\* recommend_anime(anime_recs, min_count=2, min_mean=7)
DefaultMinCount == 2
min_mean == 7

Files == 0..(NumFiles - 1)

----------------------------------------------------------------------------
(* Helpers on sequences and sets.                                          *)

Range(s) == {s[k] : k \in DOMAIN s}

Min(a, b) == IF a <= b THEN a ELSE b

Max(a, b) == IF a >= b THEN a ELSE b

----------------------------------------------------------------------------
(* generate_rating                                                         *)

generate_rating(liked_book_list, rating) ==
    [k \in DOMAIN liked_book_list |->
        [user_id |-> 0, anime_id |-> liked_book_list[k], rating |-> rating]]

----------------------------------------------------------------------------
(* find_similar_user_interactions                                          *)

UsersOf(data) == {data[k].user_id : k \in DOMAIN data}

\* agg(num_same=('same', 'sum')): rows of the user whose anime is in the list.
num_same(data, anime_list, u) ==
    Cardinality({k \in DOMAIN data :
        data[k].user_id = u /\ data[k].anime_id \in Range(anime_list)})

\* agg(count_review=('same', 'count')): rows of the user.
count_review(data, u) ==
    Cardinality({k \in DOMAIN data : data[k].user_id = u})

\* The boolean mask of lines 47-49.
QualifyingNoReviewCap(data, anime_list, min_anime_similar, max_anime_reviewed) ==
    {u \in UsersOf(data) : num_same(data, anime_list, u) >= min_anime_similar}

Qualifying(data, anime_list, min_anime_similar, max_anime_reviewed) ==
    {u \in UsersOf(data) :
        /\ num_same(data, anime_list, u) >= min_anime_similar
        /\ count_review(data, u) < max_anime_reviewed}

\* Number of rows of .iloc[:m] on n rows: the first m for m >= 0, all but the
\* last -m for m < 0.
SliceLenWhole(n, m) == n

SliceLen(n, m) == IF m >= 0 THEN Min(n, m) ELSE Max(n + m, 0)

\* The user sets .sort_values(by='num_same', ascending=False).iloc[:max_members]
\* can select: the sort is not stable, so users with equal num_same come in
\* any order.
Selections(data, anime_list, min_anime_similar, max_members_arg, max_anime_reviewed) ==
    LET Q == Qualifying(data, anime_list, min_anime_similar, max_anime_reviewed)
        n == SliceLen(Cardinality(Q), max_members_arg)
    IN  {S \in SUBSET Q :
            /\ Cardinality(S) = n
            /\ \A a \in S, b \in Q \ S :
                  num_same(data, anime_list, a) >= num_same(data, anime_list, b)}

\* data.loc[data['user_id'].isin(selected_users)].drop('same', axis=1): the rows
\* of the selected users, in the order of the file.
RECURSIVE SelectedRows(_, _)
SelectedRows(data, selected_users) ==
    IF data = <<>> THEN <<>>
    ELSE (IF Head(data).user_id \in selected_users THEN <<Head(data)>> ELSE <<>>)
         \o SelectedRows(Tail(data), selected_users)

----------------------------------------------------------------------------
(* create_recommendation_matrix                                            *)

\* math.ceil(anime_percentage * number_anime), the percentage in hundredths.
MinAnimeSimilar(percent, number_anime) == (percent * number_anime + 99) \div 100

\* .astype("category").cat.codes: the categories are the distinct values in
\* sorted order, the code of a value is its position among them.
CatCodeDescending(values, v) == Cardinality({w \in values : w > v})

CatCode(values, v) == Cardinality({w \in values : w < v})

\* interactions with the user_index and anime_index columns (lines 132-135).
Enriched(table) ==
    LET uids == {table[k].user_id : k \in DOMAIN table}
        aids == {table[k].anime_id : k \in DOMAIN table}
    IN  [k \in DOMAIN table |->
            [user_id     |-> table[k].user_id,
             anime_id    |-> table[k].anime_id,
             rating      |-> table[k].rating,
             user_index  |-> CatCode(uids, table[k].user_id),
             anime_index |-> CatCode(aids, table[k].anime_id)]]

\* Sum of the ratings of the rows k..Len(table) that fall in cell (r, c).
RECURSIVE CellSum(_, _, _, _)
CellSum(table, k, r, c) ==
    IF k > Len(table) THEN 0
    ELSE (IF table[k].user_index = r /\ table[k].anime_index = c
          THEN table[k].rating ELSE 0) + CellSum(table, k + 1, r, c)

\* coo_matrix((rating, (user_index, anime_index))).tocsr(): the shape is the
\* largest index plus one on each axis, and tocsr() adds up the entries of a
\* cell given more than once.
RatingMatrix(table) ==
    LET n_rows == Cardinality({table[k].user_index : k \in DOMAIN table})
        n_cols == Cardinality({table[k].anime_index : k \in DOMAIN table})
    IN  [r \in 0..(n_rows - 1) |-> [c \in 0..(n_cols - 1) |-> CellSum(table, 1, r, c)]]

----------------------------------------------------------------------------
(* create_anime_recommendation_df                                          *)

\* interactions.loc[interactions.user_id == 0]['user_index'][0]: all the rows
\* of user 0 carry the same user_index, whichever of them label 0 names.
MyIndex(table) ==
    LET k == CHOOSE j \in DOMAIN table : table[j].user_id = 0 IN table[k].user_index

Dot(matrix, a, b) ==
    LET cols == DOMAIN matrix[a]
        RECURSIVE Acc(_)
        Acc(c) == IF c \notin cols THEN 0
                  ELSE matrix[a][c] * matrix[b][c] + Acc(c + 1)
    IN  Acc(0)

\* cosine_similarity(row me, row a) >= cosine_similarity(row me, row b). The
\* ratings are positive, so every dot product is >= 0 and no row is zero;
\* dot(me,a)/(|me||a|) >= dot(me,b)/(|me||b|) is compared on the squares.
SimilarityGE(matrix, me, a, b) ==
    Dot(matrix, me, a) * Dot(matrix, me, a) * Dot(matrix, b, b)
        >= Dot(matrix, me, b) * Dot(matrix, me, b) * Dot(matrix, a, a)

\* np.argpartition(similarity, -min_rec)[-min_rec:]: the sets of min_rec rows
\* of highest similarity (rows of equal similarity in any order).
SimilarUserIndices(matrix, me) ==
    LET rows == DOMAIN matrix
        min_rec == Min(Cardinality(rows), TopK)
    IN  IF min_rec = Cardinality(rows) THEN {rows}
        ELSE {S \in SUBSET rows :
                /\ Cardinality(S) = min_rec
                /\ \A a \in S, b \in rows \ S : SimilarityGE(matrix, me, a, b)}

\* Lines 166-167: the rows of the selected users, the target's own left out.
RECURSIVE SimilarUsers(_, _)
SimilarUsers(table, indices) ==
    IF table = <<>> THEN <<>>
    ELSE (IF Head(table).user_index \in indices /\ Head(table).user_id # 0
          THEN <<Head(table)>> ELSE <<>>) \o SimilarUsers(Tail(table), indices)

RECURSIVE RatingSum(_, _)
RatingSum(table, a) ==
    IF table = <<>> THEN 0
    ELSE (IF Head(table).anime_id = a THEN Head(table).rating ELSE 0)
         + RatingSum(Tail(table), a)

\* groupby('anime_id').rating.agg(['count', 'mean']); the mean is kept as the
\* sum of the ratings over the count.
AnimeRecs(similar_users) ==
    [a \in {similar_users[k].anime_id : k \in DOMAIN similar_users} |->
        [count |-> Cardinality({k \in DOMAIN similar_users : similar_users[k].anime_id = a}),
         total |-> RatingSum(similar_users, a)]]

----------------------------------------------------------------------------
(* recommend_anime                                                         *)

\* anime/anime.parquet: anime_id -> 'Scored By', for the anime it lists. 'Name'
\* is carried by the anime_id itself; 'Score' is copied through and left out.
Catalogs == UNION {[A -> ScoredByValues] : A \in SUBSET AnimeIds}

\* np.exp2(np.log(x)) in thousandths: log(0) is -inf and exp2(-inf) is 0.
Exp2Log(x) ==
    CASE x = 0 -> 0
      [] x = 1 -> 1000
      [] x = 2 -> 1617

\* Lines 199-203: the inner join, the filter on the module's liked_anime_list
\* and the filter on count and mean (mean > min_mean as total > min_mean * count).
Kept(recs, catalog, liked, min_count) ==
    {a \in DOMAIN recs \cap DOMAIN catalog :
        /\ a \notin Range(liked)
        /\ recs[a].count > min_count
        /\ recs[a].total > min_mean * recs[a].count}

\* Lines 206-207. recommend_score = mean * count * count / exp2(log(Scored By))
\* is the fraction num / den; den = 0 is the float +inf of a division by 0.0.
Row(recs, catalog, a) ==
    [Name      |-> a,
     ScoredBy  |-> catalog[a],
     score_num |-> recs[a].total * recs[a].count * 1000,
     score_den |-> Exp2Log(catalog[a])]

ScoreGE(x, y) ==
    IF x.score_den = 0 THEN TRUE
    ELSE IF y.score_den = 0 THEN FALSE
    ELSE x.score_num * y.score_den >= y.score_num * x.score_den

\* sort_values("recommend_score", ascending=False): rows of equal score in any
\* order.
Rankings(rows) ==
    {s \in [1..Cardinality(rows) -> rows] :
        /\ \A j, k \in DOMAIN s : j # k => s[j] # s[k]
        /\ \A j, k \in DOMAIN s : j < k => ScoreGE(s[j], s[k])}

----------------------------------------------------------------------------
VARIABLES
    entry,              \* "scan": the scanner was called; "pipeline": main.py's chain
    pc,                 \* "loop": in the scanner's loop; "scanned": the scanner
                        \* returned; "built", "scored", "done": the pipeline's steps
    anime_list,         \* the liked list passed as argument
    liked_anime_list,   \* the module-level constant of collab_based_rec.py
    coverage, min_anime_similar, max_members, max_anime_reviewed,
    visited,            \* files already taken from the shuffled order
    data,               \* the last file read
    temp,               \* what the finder returned for it
    users,              \* pd.concat of the frames appended so far
    counter, coverage_count,
    n_users,            \* history: users returned by the finder, summed over the files
    n_read,             \* history: records read from the score files
    interactions, rating_matrix, anime_recs, result

scan_vars == <<visited, data, temp, users, counter, coverage_count, n_users, n_read>>

arg_vars == <<entry, anime_list, liked_anime_list, coverage, min_anime_similar,
              max_members, max_anime_reviewed>>

out_vars == <<interactions, rating_matrix, anime_recs, result>>

vars == <<pc, arg_vars, scan_vars, out_vars>>

\* The scanner when its loop is entered (lines 79-83); nothing built yet.
ScanStart ==
    /\ pc = "loop"
    /\ visited = {}
    /\ data = <<>>
    /\ temp = <<>>
    /\ users = <<>>
    /\ counter = 0
    /\ coverage_count = 0
    /\ n_users = 0
    /\ n_read = 0
    /\ interactions = <<>>
    /\ rating_matrix = <<>>
    /\ anime_recs = <<>>
    /\ result = <<>>

\* find_total_similar_user_interactions called on its own. The finder only
\* tests whether an anime is in anime_list: with <<1>>, anime 1 is and 2 is not.
Init ==
    /\ entry = "scan"
    /\ anime_list = <<1>>
    /\ liked_anime_list = anime_list
    /\ coverage \in 1..NumFiles
    /\ min_anime_similar \in {1, 2}
    /\ max_members \in {-1, 0, 1, 2}
    /\ max_anime_reviewed \in {2, PipelineMaxAnimeReviewed}
    /\ ScanStart

\* main.py: create_recommendation_matrix(liked list, anime_percentage), which
\* calls the scanner at lines 126-130.
PipelineInit ==
    /\ entry = "pipeline"
    /\ anime_list \in LikedLists
    /\ liked_anime_list \in LikedLists
    /\ \E percent \in {60, 80} :
         min_anime_similar = MinAnimeSimilar(percent, Len(anime_list))
    /\ coverage = PipelineCoverage
    /\ max_members = DefaultMaxMembers
    /\ max_anime_reviewed = PipelineMaxAnimeReviewed
    /\ ScanStart

\* One iteration of `for i in files` (lines 85-98): i is the next file of the
\* shuffled order, data the content of score/users_scores_<i>.parquet. Leaving
\* the loop, the function returns pd.concat(users) (line 100).
Visit(i) ==
    /\ pc = "loop"
    /\ i \in Files \ visited
    /\ data' \in Frames(MaxRecords - n_read)
    /\ n_read' = n_read + Len(data')
    /\ \E selected_users \in Selections(data', anime_list, min_anime_similar,
                                        max_members - counter, max_anime_reviewed) :
         /\ temp' = SelectedRows(data', selected_users)
         /\ n_users' = n_users + Cardinality(selected_users)
    /\ users' = users \o temp'
    /\ counter' = counter + Len(temp')
    /\ coverage_count' = coverage_count + 1
    /\ visited' = visited \cup {i}
    /\ pc' = IF i >= coverage THEN "scanned"
             ELSE IF counter' >= max_members THEN "scanned"
             ELSE IF visited' = Files THEN "scanned"
             ELSE "loop"
    /\ UNCHANGED <<arg_vars, out_vars>>

\* create_recommendation_matrix, lines 131-140.
BuildMatrix ==
    /\ pc = "scanned"
    /\ entry = "pipeline"
    /\ interactions' = Enriched(generate_rating(anime_list, LikedRating) \o users)
    /\ rating_matrix' = RatingMatrix(interactions')
    /\ pc' = "built"
    /\ UNCHANGED <<arg_vars, scan_vars, anime_recs, result>>

\* create_anime_recommendation_df(rating_matrix, interactions).
ScoreNeighbors ==
    /\ pc = "built"
    /\ \E indices \in SimilarUserIndices(rating_matrix, MyIndex(interactions)) :
         anime_recs' = AnimeRecs(SimilarUsers(interactions, indices))
    /\ pc' = "scored"
    /\ UNCHANGED <<arg_vars, scan_vars, interactions, rating_matrix, result>>

\* recommend_anime(anime_recs, min_count): catalog is anime/anime.parquet.
Recommend ==
    /\ pc = "scored"
    /\ \E catalog \in Catalogs, min_count \in 0..DefaultMinCount :
         LET kept == Kept(anime_recs, catalog, liked_anime_list, min_count)
             rows == {Row(anime_recs, catalog, a) : a \in kept}
         IN  result' \in Rankings(rows)
    /\ pc' = "done"
    /\ UNCHANGED <<arg_vars, scan_vars, interactions, rating_matrix, anime_recs>>

Next == \E i \in Files : Visit(i)

Spec == Init /\ [][Next]_vars

PipelineNext ==
    \/ \E i \in Files : Visit(i)
    \/ BuildMatrix
    \/ ScoreNeighbors
    \/ Recommend

PipelineSpec == PipelineInit /\ [][PipelineNext]_vars

----------------------------------------------------------------------------
(* Properties of the scanner, checked under Spec.                          *)

\* C1: for max_members >= 1, after every processed file the running total of
\* the users whose records were appended (counted per file, a user found in
\* two files twice) never exceeds max_members.
C1_UsersWithinMaxMembers == max_members >= 1 => n_users <= max_members

\* The budget is filled by two files that gave one user each.
C1_BudgetFilledOverTwoFiles ==
    /\ pc = "scanned"
    /\ max_members = 2
    /\ coverage_count = 2
    /\ n_users = 2
    /\ Len(temp) = 1

\* C2: coverage is the minimum number of files processed: when the scan ends
\* and the max_members budget was not reached, at least coverage files were
\* visited.
C2_CoverageIsMinimumFilesProcessed ==
    (pc = "scanned" /\ counter < max_members) => coverage_count >= coverage

\* C3: every user whose records the finder returned has, in the file it was
\* given, at least min_anime_similar records on listed anime and fewer than
\* max_anime_reviewed records; no record of a disqualified user is returned.
C3_ReturnedUsersQualify ==
    \A k \in DOMAIN temp :
        /\ num_same(data, anime_list, temp[k].user_id) >= min_anime_similar
        /\ count_review(data, temp[k].user_id) < max_anime_reviewed

\* A file of two records of which one is returned although the budget had room
\* for both users: the other user was disqualified.
C3_OneUserDisqualified ==
    /\ coverage_count = 1
    /\ max_members = 2
    /\ Len(data) = 2
    /\ Len(temp) = 1

\* C4: the finder never returns records of more distinct users than the
\* max_members argument the scanner gave it (max_members - counter, with
\* counter as it was before the call), and returns nothing when that is 0.
\* An argument below 0 is read as allowing no user.
C4_FinderWithinItsArgument ==
    coverage_count >= 1 =>
        LET argument == max_members - (counter - Len(temp))
        IN  /\ Cardinality(UsersOf(temp)) <= Max(argument, 0)
            /\ argument = 0 => temp = <<>>

\* C7: called with max_members <= 0, the scanner reads no file and ends by
\* raising an error. No statement of the function raises: pc never becomes
\* "raised".
C7_InvalidMaxMembersRejectedBeforeReading ==
    max_members <= 0 =>
        /\ coverage_count = 0
        /\ pc # "loop" => pc = "raised"

\* C9: the running total compared with max_members (counter) grows per file by
\* the number of distinct users the finder returned, so that it always equals
\* their sum.
C9_CounterCountsUsers == counter = n_users

----------------------------------------------------------------------------
(* Properties of the pipeline, checked under PipelineSpec.                 *)

\* C5: the table recommend_anime returns holds no anime of the liked list that
\* was passed to create_recommendation_matrix (stated of the rows of finite
\* score, which do not rest on a 'Scored By' of 0).
C5_NoLikedAnimeRecommended ==
    \A k \in DOMAIN result :
        result[k].ScoredBy # 0 => result[k].Name \notin Range(anime_list)

\* C6: an anime whose 'Scored By' is 0 never reaches the computation of
\* adjusted_count: no row of the result has a score made from log(0) (stated
\* of the runs in which the list passed is the module's own, as in main.py).
C6_NoZeroScoredByRanked ==
    liked_anime_list = anime_list =>
        \A k \in DOMAIN result : result[k].ScoredBy # 0

\* C8: in the enriched interaction table a record has user_index 0 if and
\* only if its user_id is 0.
C8_RowZeroIsTargetUser ==
    \A k \in DOMAIN interactions :
        interactions[k].user_index = 0 <=> interactions[k].user_id = 0

\* C8, amended: the same, for tables in which no user_id is negative.
C8_RowZeroIsTargetUserIfNoNegativeId ==
    (\A j \in DOMAIN interactions : interactions[j].user_id >= 0) =>
        \A k \in DOMAIN interactions :
            interactions[k].user_index = 0 <=> interactions[k].user_id = 0

\* A table without negative ids that holds another user beside the target.
C8_TableWithSecondUser ==
    /\ \A j \in DOMAIN interactions : interactions[j].user_id >= 0
    /\ \E j \in DOMAIN interactions : interactions[j].user_id = 1

\* C10: a cell of the matrix that several records of the table fall in holds
\* the rating of the last of them.
C10_LastOccurrenceWins ==
    \A j, k \in DOMAIN interactions :
        (/\ j < k
         /\ interactions[j].user_index = interactions[k].user_index
         /\ interactions[j].anime_index = interactions[k].anime_index
         /\ \A l \in DOMAIN interactions :
               (/\ interactions[l].user_index = interactions[k].user_index
                /\ interactions[l].anime_index = interactions[k].anime_index)
               => l <= k)
        => rating_matrix[interactions[k].user_index][interactions[k].anime_index]
             = interactions[k].rating

====
